---- MODULE Spec2Model ----
(***************************************************************************)
(* Math row assembly and formula entry point of the typst math library.    *)
(*                                                                         *)
(*   library/src/math/row.rs   MathRow::new, width/height/ascent/descent,  *)
(*                             to_aligned_frame, to_line_frame,            *)
(*                             to_frame, to_fragment                       *)
(*   library/src/math/mod.rs   FormulaNode::layout,                        *)
(*                             impl LayoutMath for Content                 *)
(*                                                                         *)
(* Lengths (Abs) are integers, 36 to the em.  A Rust index i into a Vec is the TLA+      *)
(* position i + 1; Option<usize> None is 0 and Some(i) is i + 1.           *)
(***************************************************************************)
EXTENDS Integers, Sequences, FiniteSets, TLC

\* Longest input vector handed to MathRow::new.
MaxLen == 4

(***************************************************************************)
(* MathFragment (fragment.rs) and its accessors.                           *)
(***************************************************************************)
Frag(k, c, sp, w, a, d) ==
    [kind |-> k, class |-> c, spaced |-> sp, width |-> w, ascent |-> a, descent |-> d]

\* Option::<MathFragment>::None
Nil == Frag("Nil", "None", FALSE, 0, 0, 0)

Glyph(c, w, a, d) == Frag("Glyph", c, FALSE, w, a, d)

FrameFragment(c, sp, w, a, d) == Frag("Frame", c, sp, w, a, d)

Space(w) == Frag("Space", "None", FALSE, w, 0, 0)

Spacing(w) == Frag("Spacing", "None", FALSE, w, 0, 0)

Align == Frag("Align", "None", FALSE, 0, 0, 0)

Linebreak == Frag("Linebreak", "None", FALSE, 0, 0, 0)

\* The fragments that fall through the match of MathRow::new to `_ => {}`.
IsSubstantive(f) == f.kind \in {"Glyph", "Frame"}

\* MathFragment::class: Some(class) for glyphs and frames, None otherwise.
class(f) == IF IsSubstantive(f) THEN f.class ELSE "None"

\* MathFragment::set_class: only glyphs and frames carry a class.
set_class(f, c) == IF IsSubstantive(f) THEN [f EXCEPT !.class = c] ELSE f

width(f) == f.width

ascent(f) == f.ascent

descent(f) == f.descent

is_spaced(f) == f.kind = "Frame" /\ f.spaced

MathClass ==
    {"Normal", "Alphabetic", "Binary", "Relation", "Opening", "Closing",
     "Punctuation", "Fence", "Operator", "Vary", "Large"}

(***************************************************************************)
(* spacing(l, space, r) (spacing.rs): the gap between two substantive      *)
(* fragments, in units of 1/36 em.                                         *)
(***************************************************************************)
THIN == 6

MEDIUM == 8

THICK == 10

spacing(l, space, r) ==
    LET cl == class(l)
        cr == class(r)
    IN  IF cr = "Punctuation" THEN Nil
        ELSE IF cl = "Punctuation" THEN Spacing(THIN)
        ELSE IF cl = "Opening" \/ cr = "Closing" THEN Nil
        ELSE IF cl = "Relation" /\ cr = "Relation" THEN Nil
        ELSE IF cl = "Relation" \/ cr = "Relation" THEN Spacing(THICK)
        ELSE IF cl = "Binary" \/ cr = "Binary" THEN Spacing(MEDIUM)
        ELSE IF (cl = "Large" /\ cr \in {"Opening", "Fence"})
                \/ (cl \in {"Opening", "Fence"} /\ cr = "Large") THEN Nil
        ELSE IF cl = "Large" \/ cr = "Large" THEN Spacing(THIN)
        ELSE IF (is_spaced(l) \/ is_spaced(r)) /\ space # Nil
             THEN Spacing(width(space))
        ELSE Nil

(***************************************************************************)
(* MathRow::new, one loop iteration per operator.  The loop state is       *)
(* [last, space, resolved].                                                *)
(***************************************************************************)
\* Vec::insert(i, s) with the Rust index i: s lands after the first i elements.
VecInsert(v, i, s) == SubSeq(v, 1, i) \o <<s>> \o SubSeq(v, i + 1, Len(v))

LoopInit == [last |-> 0, space |-> Nil, resolved |-> <<>>]

\* SpaceArm without the `last.is_some()` test.
SpaceArmAlways(st, f) == [st EXCEPT !.space = f]

SpaceArm(st, f) == IF st.last # 0 THEN [st EXCEPT !.space = f] ELSE st

\* SpacingArm without the two resets.
SpacingArmKeepLast(st, f) == [st EXCEPT !.resolved = Append(st.resolved, f)]

\* SpacingArm that forgets `last` but keeps the pending space.
SpacingArmKeepsSpace(st, f) ==
    [st EXCEPT !.last = 0, !.resolved = Append(st.resolved, f)]

SpacingArm(st, f) ==
    [last |-> 0, space |-> Nil, resolved |-> Append(st.resolved, f)]

\* An Align arm that forgets `last` and the pending space, as the Spacing arm does.
AlignArmResets(st, f) ==
    [last |-> 0, space |-> Nil, resolved |-> Append(st.resolved, f)]

\* An Align arm that consumes the marker without pushing it.
AlignArmDropsMarker(st, f) == st

AlignArm(st, f) == [st EXCEPT !.resolved = Append(st.resolved, f)]

\* A Linebreak arm that pushes the marker and keeps `last` and the pending space.
LinebreakArmKeepLast(st, f) == [st EXCEPT !.resolved = Append(st.resolved, f)]

LinebreakArm(st, f) ==
    [last |-> 0, space |-> Nil, resolved |-> Append(st.resolved, f)]

PromotingClasses == {"Normal", "Alphabetic", "Closing", "Fence"}

\* Promote with Relation added to the pattern.
PromoteRelationToo(st, f) ==
    IF class(f) = "Vary"
       /\ st.last # 0
       /\ class(st.resolved[st.last]) \in PromotingClasses \cup {"Relation"}
    THEN set_class(f, "Binary")
    ELSE f

\* The Vary -> Binary conversion.
Promote(st, f) ==
    IF class(f) = "Vary"
       /\ st.last # 0
       /\ class(st.resolved[st.last]) \in PromotingClasses
    THEN set_class(f, "Binary")
    ELSE f

\* InsertGap with `insert(i, s)` for `insert(i + 1, s)`.
InsertGapOffByOne(st, g) ==
    IF st.last # 0
    THEN LET s == spacing(st.resolved[st.last], st.space, g)
         IN  [st EXCEPT !.space = Nil,
                        !.resolved = IF s # Nil
                                     THEN VecInsert(st.resolved, st.last - 1, s)
                                     ELSE st.resolved]
    ELSE st

\* The gap insertion: `if let Some(i) = last { if let Some(s) = spacing(..) }`.
\* space.take() empties the pending space whenever `last` is set.
InsertGap(st, g) ==
    IF st.last # 0
    THEN LET s == spacing(st.resolved[st.last], st.space, g)
         IN  [st EXCEPT !.space = Nil,
                        !.resolved = IF s # Nil
                                     THEN VecInsert(st.resolved, st.last, s)
                                     ELSE st.resolved]
    ELSE st

\* SubstantiveArm with the gap decided before the conversion.
SubstantiveArmGapFirst(st, f) ==
    LET t == InsertGap(st, f)
        g == Promote(st, f)
    IN  [last |-> Len(t.resolved) + 1,
         space |-> t.space,
         resolved |-> Append(t.resolved, g)]

SubstantiveArm(st, f) ==
    LET g == Promote(st, f)
        t == InsertGap(st, g)
    IN  [last |-> Len(t.resolved) + 1,
         space |-> t.space,
         resolved |-> Append(t.resolved, g)]

LoopStep(st, f) ==
    CASE f.kind = "Space" -> SpaceArm(st, f)
      [] f.kind = "Spacing" -> SpacingArm(st, f)
      [] f.kind = "Align" -> AlignArm(st, f)
      [] f.kind = "Linebreak" -> LinebreakArm(st, f)
      [] OTHER -> SubstantiveArm(st, f)

RECURSIVE LoopRun(_, _, _)
LoopRun(st, fs, k) ==
    IF k > Len(fs) THEN st ELSE LoopRun(LoopStep(st, fs[k]), fs, k + 1)

\* MathRow::new(fragments) as a whole: Self(resolved).
MathRow_new(fs) == LoopRun(LoopInit, fs, 1).resolved

(***************************************************************************)
(* Row measurement: MathRow::width, height, ascent, descent.               *)
(***************************************************************************)
None == [some |-> FALSE, val |-> 0]

Some(v) == [some |-> TRUE, val |-> v]

\* Option::unwrap_or_default on an Abs.
unwrap_or_default(o) == IF o.some THEN o.val ELSE 0

\* Iterator::max: None on an empty iterator, the last greatest element otherwise.
RECURSIVE IterMaxFrom(_, _, _)
IterMaxFrom(s, k, best) ==
    IF k > Len(s) THEN best
    ELSE IterMaxFrom(s, k + 1,
             IF ~best.some \/ s[k] >= best.val THEN Some(s[k]) ELSE best)

IterMax(s) == IterMaxFrom(s, 1, None)

\* Iterator::sum.
RECURSIVE IterSumFrom(_, _)
IterSumFrom(s, k) == IF k > Len(s) THEN 0 ELSE s[k] + IterSumFrom(s, k + 1)

IterSum(s) == IterSumFrom(s, 1)

Widths(r) == [i \in 1..Len(r) |-> width(r[i])]

Ascents(r) == [i \in 1..Len(r) |-> ascent(r[i])]

Descents(r) == [i \in 1..Len(r) |-> descent(r[i])]

\* MathRow::width counting glyphs and frames only.
MathRow_widthSkipSpacing(r) ==
    IterSum([i \in 1..Len(r) |-> IF r[i].kind = "Spacing" THEN 0 ELSE width(r[i])])

MathRow_width(r) == IterSum(Widths(r))

MathRow_ascent(r) == unwrap_or_default(IterMax(Ascents(r)))

MathRow_descent(r) == unwrap_or_default(IterMax(Descents(r)))

MathRow_height(r) == MathRow_ascent(r) + MathRow_descent(r)

(***************************************************************************)
(* Frames (Frame of the document model).  A frame is its size, its         *)
(* optional baseline and the items placed in it.                           *)
(***************************************************************************)
\* Frame::new(size): no baseline, nothing placed.
Frame_new(x, y) ==
    [size_x |-> x, size_y |-> y, has_baseline |-> FALSE, baseline |-> 0, items |-> <<>>]

set_baseline(fr, b) == [fr EXCEPT !.has_baseline = TRUE, !.baseline = b]

\* Frame::baseline, Frame::ascent, Frame::descent of a frame with a baseline.
Frame_baseline(fr) == fr.baseline

Frame_ascent(fr) == Frame_baseline(fr)

Frame_descent(fr) == fr.size_y - Frame_baseline(fr)

\* FrameFragment::new(ctx, frame): the frame as one opaque fragment of class
\* Normal, not spaced, with the frame's width, ascent and descent.
FrameFragment_new(fr) ==
    [kind |-> "Frame", class |-> "Normal", spaced |-> FALSE, width |-> fr.size_x,
     ascent |-> Frame_ascent(fr), descent |-> Frame_descent(fr), frame |-> fr]

with_spaced(f, spaced) == [f EXCEPT !.spaced = spaced]

\* Frame::push_frame / push: the item at (x, y).
push_frame(fr, x, y, item) ==
    [fr EXCEPT !.items = Append(@, [x |-> x, y |-> y, item |-> item])]

Max(a, b) == IF a >= b THEN a ELSE b

Aligns == {"Left", "Center", "Right"}

\* Align::position(free): where content sits in `free` leftover space.
position(align, free) ==
    CASE align = "Left" -> 0
      [] align = "Center" -> free \div 2
      [] align = "Right" -> free

(***************************************************************************)
(* alignments(rows) (align.rs): the shared alignment-column positions.     *)
(* Column c is the greatest cursor position at which any row meets its     *)
(* c-th Align marker, earlier columns being already snapped.               *)
(***************************************************************************)
RECURSIVE AlignScan(_, _, _, _, _, _)
AlignScan(points, r, current, k, x, i) ==
    IF k > Len(r) THEN points
    ELSE IF r[k].kind = "Align"
         THEN IF i < current
              THEN AlignScan(points, r, current, k + 1, points[i], i + 1)
              ELSE IF i = current
                   THEN AlignScan([points EXCEPT ![i] = Max(@, x)], r, current,
                                  k + 1, x, i + 1)
                   ELSE AlignScan(points, r, current, k + 1, x, i + 1)
         ELSE AlignScan(points, r, current, k + 1, x + width(r[k]), i)

RECURSIVE AlignRows(_, _, _, _)
AlignRows(points, rows, current, j) ==
    IF j > Len(rows) THEN points
    ELSE AlignRows(AlignScan(points, rows[j], current, 1, 0, 1), rows, current, j + 1)

RECURSIVE AlignColumns(_, _, _)
AlignColumns(points, rows, current) ==
    IF current > Len(points) THEN points
    ELSE AlignColumns(AlignRows(points, rows, current, 1), rows, current + 1)

Count(s, k) == Len(SelectSeq(s, LAMBDA f : f.kind = k))

alignments(rows) ==
    LET count == unwrap_or_default(
                     IterMax([j \in 1..Len(rows) |-> Count(rows[j], "Align")]))
    IN  AlignColumns([c \in 1..count |-> 0], rows, 1)

(***************************************************************************)
(* MathRow::to_line_frame and MathRow::to_aligned_frame.                   *)
(***************************************************************************)
\* The centered start: `offset` runs back from the first column over the
\* fragments up to the first Align marker; without a marker x stays zero.
RECURSIVE CenterScan(_, _, _)
CenterScan(r, k, offset) ==
    IF k > Len(r) THEN 0
    ELSE LET o == offset - width(r[k])
         IN  IF r[k].kind = "Align" THEN o ELSE CenterScan(r, k + 1, o)

StartX(r, points, align) ==
    IF Len(points) > 0 /\ align = "Center" THEN CenterScan(r, 1, points[1]) ELSE 0

\* The placing loop without `i += 1`: every Align reads the first column.
RECURSIVE PlaceFromStuckColumn(_, _, _, _, _, _)
PlaceFromStuckColumn(fr, r, points, k, x, i) ==
    IF k > Len(r) THEN [fr EXCEPT !.size_x = x]
    ELSE IF r[k].kind = "Align"
         THEN PlaceFromStuckColumn(fr, r, points, k + 1,
                                   IF i <= Len(points) THEN points[i] ELSE x, i)
         ELSE PlaceFromStuckColumn(push_frame(fr, x, fr.baseline - ascent(r[k]), r[k]),
                                   r, points, k + 1, x + width(r[k]), i)

\* The placing loop; i is the Rust counter i plus one.
RECURSIVE PlaceFrom(_, _, _, _, _, _)
PlaceFrom(fr, r, points, k, x, i) ==
    IF k > Len(r) THEN [fr EXCEPT !.size_x = x]
    ELSE IF r[k].kind = "Align"
         THEN PlaceFrom(fr, r, points, k + 1,
                        IF i <= Len(points) THEN points[i] ELSE x, i + 1)
         ELSE PlaceFrom(push_frame(fr, x, fr.baseline - ascent(r[k]), r[k]),
                        r, points, k + 1, x + width(r[k]), i)

\* to_line_frame without the final `frame.size_mut().x = x`.
to_line_frameKeepsZeroWidth(r, points, align) ==
    LET a == MathRow_ascent(r)
        d == MathRow_descent(r)
        fr == set_baseline(Frame_new(0, a + d), a)
    IN  [PlaceFrom(fr, r, points, 1, StartX(r, points, align), 1) EXCEPT !.size_x = 0]

to_line_frame(r, points, align) ==
    LET a == MathRow_ascent(r)
        d == MathRow_descent(r)
        fr == set_baseline(Frame_new(0, a + d), a)
    IN  PlaceFrom(fr, r, points, 1, StartX(r, points, align), 1)

\* slice::split at the Linebreak markers.
RECURSIVE SplitFrom(_, _, _)
SplitFrom(v, k, cur) ==
    IF k > Len(v) THEN <<cur>>
    ELSE IF v[k].kind = "Linebreak"
         THEN <<cur>> \o SplitFrom(v, k + 1, <<>>)
         ELSE SplitFrom(v, k + 1, Append(cur, v[k]))

Split(v) == SplitFrom(v, 1, <<>>)

\* TIGHT_LEADING = Em::new(0.25), scaled.
TIGHT_LEADING == 9

\* ctx is [size_ge_text, par_leading]: ctx.style.size >= MathSize::Text and
\* ParElem::leading_in(ctx.styles()).
Leading(ctx) == IF ctx.size_ge_text THEN ctx.par_leading ELSE TIGHT_LEADING

\* StackRow without the `i > 0` test.
StackRowLeadingAlways(fr, sub, i, points, align, leading, w) ==
    LET y == fr.size_y + leading
        x == IF Len(points) = 0 THEN position(align, w - sub.size_x) ELSE 0
    IN  push_frame([fr EXCEPT !.size_y = y + sub.size_y,
                              !.size_x = Max(fr.size_x, sub.size_x)],
                   x, y, sub)

\* StackRow without the `points.is_empty()` test.
StackRowAlignsAlways(fr, sub, i, points, align, leading, w) ==
    LET y == IF i > 1 THEN fr.size_y + leading ELSE fr.size_y
        x == position(align, w - sub.size_x)
    IN  push_frame([fr EXCEPT !.size_y = y + sub.size_y,
                              !.size_x = Max(fr.size_x, sub.size_x)],
                   x, y, sub)

\* One iteration of `for (i, row) in rows.into_iter().enumerate()`; i is the
\* Rust index plus one and sub the row's line frame.
StackRow(fr, sub, i, points, align, leading, w) ==
    LET y == IF i > 1 THEN fr.size_y + leading ELSE fr.size_y
        x == IF Len(points) = 0 THEN position(align, w - sub.size_x) ELSE 0
    IN  push_frame([fr EXCEPT !.size_y = y + sub.size_y,
                              !.size_x = Max(fr.size_x, sub.size_x)],
                   x, y, sub)

RECURSIVE StackRows(_, _, _, _, _, _, _)
StackRows(fr, rows, i, points, align, leading, w) ==
    IF i > Len(rows) THEN fr
    ELSE StackRows(StackRow(fr, to_line_frame(rows[i], points, align), i,
                            points, align, leading, w),
                   rows, i + 1, points, align, leading, w)

to_aligned_frame(r, ctx, points, align) ==
    IF \E k \in 1..Len(r) : r[k].kind = "Linebreak"
    THEN LET rows == Split(r)
             w == unwrap_or_default(
                      IterMax([j \in 1..Len(rows) |-> MathRow_width(rows[j])]))
         IN  StackRows(Frame_new(0, 0), rows, 1, alignments(rows), align,
                       Leading(ctx), w)
    ELSE to_line_frame(r, points, align)

\* MathRow::to_frame: ctx.alignment is AlignElem::alignment_in(styles).x
\* resolved against the styles.
to_frame(r, ctx) == to_aligned_frame(r, ctx, <<>>, ctx.alignment)

\* to_fragment that takes the first fragment of any row that has one.
to_fragmentTakesFirst(r, ctx) ==
    IF Len(r) >= 1 THEN r[1] ELSE FrameFragment_new(to_frame(r, ctx))

\* MathRow::to_fragment.
to_fragment(r, ctx) ==
    IF Len(r) = 1 THEN r[1] ELSE FrameFragment_new(to_frame(r, ctx))

(***************************************************************************)
(* State.                                                                  *)
(***************************************************************************)
VARIABLES
    pc,         \* position of the program
    fragments,  \* the part of the input vector the iterator has yielded
    last,       \* MathRow::new: last
    space,      \* MathRow::new: space
    resolved,   \* MathRow::new: resolved
    row,        \* the MathRow value (self.0)
    prev,       \* the row a second MathRow::new was given
    measure,    \* what width(), height(), ascent(), descent() returned
    call,       \* the arguments of to_aligned_frame: [ctx, points, align]
    frame,      \* the frame to_aligned_frame returned
    fragment,   \* the fragment to_fragment returned
    families,   \* FormulaNode::layout: families(styles), one font case each
    node,       \* the FormulaNode: [span, block]
    scan,       \* how many families find_map has tried
    font,       \* the position of the family whose font was found, 0 if none
    styles,     \* the style values the inline adjustment reads
    body,       \* the frame ctx.layout_frame returned
    laid,       \* whether ctx.layout_frame was called
    result,     \* what FormulaNode::layout returned
    content,    \* the content layout_math is called on
    stack,      \* the calls of layout_math that have not returned
    context,    \* the MathContext: [map, size, fragments]
    status,     \* "running", or how the outermost layout_math returned
    failure     \* the error a failed sub-layout returned

rowVars == <<fragments, last, space, resolved, row, prev, measure, call, frame, fragment>>

formulaVars == <<families, node, scan, font, styles, body, laid, result>>

layoutVars == <<content, stack, context, status, failure>>

vars == <<pc, rowVars, formulaVars, layoutVars>>

NoMeasure == [width |-> 0, height |-> 0, ascent |-> 0, descent |-> 0]

NoCall == [ctx |-> [size_ge_text |-> TRUE, par_leading |-> 0],
           points |-> <<>>, align |-> "Left"]

NoStyles == [leading |-> 0, top_edge |-> 0, bottom_edge |-> 0]

NoResult == [kind |-> "none", error |-> "", frame |-> Frame_new(0, 0)]

FormulaIdle ==
    /\ families = <<>>
    /\ node = [span |-> FALSE, block |-> FALSE]
    /\ scan = 0
    /\ font = 0
    /\ styles = NoStyles
    /\ body = Frame_new(0, 0)
    /\ laid = FALSE
    /\ result = NoResult

NoContext == [map |-> <<>>, size |-> 0, fragments |-> <<>>]

LayoutIdle ==
    /\ content = <<>>
    /\ stack = <<>>
    /\ context = NoContext
    /\ status = "idle"
    /\ failure = ""

AssemblyIdle ==
    /\ measure = NoMeasure
    /\ call = NoCall
    /\ frame = Frame_new(0, 0)
    /\ fragment = Nil
    /\ FormulaIdle
    /\ LayoutIdle

loop == [last |-> last, space |-> space, resolved |-> resolved]

(***************************************************************************)
(* Inputs of the row constructor: one glyph per class, a class-less glyph, *)
(* a spaced frame as pushed by layout_math, and the four other kinds.      *)
(***************************************************************************)
SpaceWidth == 12

Glyphs == {Glyph(c, 2, 1, 0) : c \in MathClass \cup {"None"}}

Substantives == Glyphs \cup {FrameFragment("Normal", TRUE, 2, 1, 0)}

Spacings == {Spacing(THIN)}

Init ==
    /\ pc = "loop"
    /\ fragments = <<>>
    /\ last = 0
    /\ space = Nil
    /\ resolved = <<>>
    /\ row = <<>>
    /\ prev = <<>>
    /\ AssemblyIdle

Take(f, st) ==
    /\ pc = "loop"
    /\ Len(fragments) < MaxLen
    /\ fragments' = Append(fragments, f)
    /\ last' = st.last
    /\ space' = st.space
    /\ resolved' = st.resolved
    /\ UNCHANGED <<pc, row, prev, measure, call, frame, fragment, formulaVars, layoutVars>>

NextSpace == Take(Space(SpaceWidth), SpaceArm(loop, Space(SpaceWidth)))

NextSpacing == \E f \in Spacings : Take(f, SpacingArm(loop, f))

NextAlign == Take(Align, AlignArm(loop, Align))

NextLinebreak == Take(Linebreak, LinebreakArm(loop, Linebreak))

NextSubstantive == \E f \in Substantives : Take(f, SubstantiveArm(loop, f))

\* iter.next() is None: Self(resolved).
Finish ==
    /\ pc = "loop"
    /\ pc' = "row"
    /\ row' = resolved
    /\ UNCHANGED <<fragments, last, space, resolved, prev, measure, call, frame, fragment, formulaVars, layoutVars>>

\* The resolved row handed to MathRow::new again.
Renew ==
    /\ pc = "row"
    /\ pc' = "renewed"
    /\ prev' = row
    /\ row' = MathRow_new(row)
    /\ UNCHANGED <<fragments, last, space, resolved, measure, call, frame, fragment, formulaVars, layoutVars>>

Next ==
    \/ NextSpace
    \/ NextSpacing
    \/ NextAlign
    \/ NextLinebreak
    \/ NextSubstantive
    \/ Finish
    \/ Renew

Spec == Init /\ [][Next]_vars

(***************************************************************************)
(* Measuring and assembling a resolved row.  The row is MathRow::new of a  *)
(* short vector of fragments with differing widths, ascents and descents.  *)
(***************************************************************************)
\* Longest input vector of a row that is measured and assembled.
MaxRowLen == 5

RowFragments ==
    {Glyph("Alphabetic", 2, 1, 0), Glyph("Alphabetic", 4, 3, 2),
     Glyph("Relation", 2, 2, 3), Spacing(2), Align, Linebreak}

BoundedSeq(S, n) == UNION {[1..m -> S] : m \in 0..n}

Contexts == [size_ge_text : BOOLEAN, par_leading : {4}]

Points == {<<>>, <<8>>}

\* The contexts of to_fragment, with the alignment to_frame reads.
FragmentContexts == [size_ge_text : BOOLEAN, par_leading : {4}, alignment : Aligns]

InitRow ==
    /\ pc = "row"
    /\ fragments \in BoundedSeq(RowFragments, MaxRowLen)
    /\ row = MathRow_new(fragments)
    /\ last = 0
    /\ space = Nil
    /\ resolved = <<>>
    /\ prev = <<>>
    /\ AssemblyIdle

\* self.width(), self.height(), self.ascent(), self.descent().
Measure ==
    /\ pc = "row"
    /\ pc' = "measured"
    /\ measure' = [width |-> MathRow_width(row), height |-> MathRow_height(row),
                   ascent |-> MathRow_ascent(row), descent |-> MathRow_descent(row)]
    /\ UNCHANGED <<fragments, last, space, resolved, row, prev, call, frame, fragment, formulaVars, layoutVars>>

\* self.to_aligned_frame(ctx, points, align).
ToAlignedFrame ==
    /\ pc = "row"
    /\ \E ctx \in Contexts, points \in Points, align \in Aligns :
          /\ call' = [ctx |-> ctx, points |-> points, align |-> align]
          /\ frame' = to_aligned_frame(row, ctx, points, align)
    /\ pc' = "framed"
    /\ UNCHANGED <<fragments, last, space, resolved, row, prev, measure, fragment,
                   formulaVars, layoutVars>>

\* self.to_fragment(ctx).
ToFragment ==
    /\ pc = "row"
    /\ \E ctx \in FragmentContexts :
          /\ call' = [ctx |-> ctx, points |-> <<>>, align |-> ctx.alignment]
          /\ fragment' = to_fragment(row, ctx)
    /\ pc' = "fragment"
    /\ UNCHANGED <<fragments, last, space, resolved, row, prev, measure, frame,
                   formulaVars, layoutVars>>

NextRow == Measure \/ ToAlignedFrame

SpecRow == InitRow /\ [][NextRow]_vars

\* to_fragment on a resolved row.
SpecFragment == InitRow /\ [][ToFragment]_vars

(***************************************************************************)
(* to_line_frame on a row without Linebreak markers.                       *)
(***************************************************************************)
InitLine ==
    /\ pc = "row"
    /\ fragments \in BoundedSeq(RowFragments \ {Linebreak}, MaxRowLen)
    /\ row = MathRow_new(fragments)
    /\ last = 0
    /\ space = Nil
    /\ resolved = <<>>
    /\ prev = <<>>
    /\ AssemblyIdle

\* self.to_line_frame(points, align).
ToLineFrame ==
    /\ pc = "row"
    /\ \E points \in Points, align \in Aligns :
          /\ call' = [NoCall EXCEPT !.points = points, !.align = align]
          /\ frame' = to_line_frame(row, points, align)
    /\ pc' = "lined"
    /\ UNCHANGED <<fragments, last, space, resolved, row, prev, measure, fragment,
                   formulaVars, layoutVars>>

SpecLine == InitLine /\ [][ToLineFrame]_vars

(***************************************************************************)
(* FormulaNode::layout (mod.rs).                                           *)
(***************************************************************************)
\* Longest font family list.
MaxFamilies == 3

\* What the font book and the world answer for one family: whether
\* book().select finds an id, world.font loads it, the font has a MATH
\* table, and the table has constants (none without the table).
AllFine == [select |-> TRUE, font |-> TRUE, math |-> TRUE, constants |-> TRUE]

FontCases ==
    {AllFine,
     [AllFine EXCEPT !.select = FALSE],
     [AllFine EXCEPT !.font = FALSE],
     [AllFine EXCEPT !.math = FALSE, !.constants = FALSE],
     [AllFine EXCEPT !.constants = FALSE]}

\* The closure without `.constants?`.
FindsFontWithMathTable(f) == f.select /\ f.font /\ f.math

\* The closure of find_map: Some(font) iff every `?` passes.
FindsFont(f) == f.select /\ f.font /\ f.math /\ f.constants

\* Frame::translate: the baseline and every item move by dy.
translate(fr, dy) ==
    [fr EXCEPT !.baseline = @ + dy,
               !.items = [i \in 1..Len(fr.items) |-> [fr.items[i] EXCEPT !.y = @ + dy]]]

\* ParNode::leading_in(styles) * 0.7; leadings are multiples of 10.
Slack(st) == (st.leading * 7) \div 10

\* AdjustInline reading the descent after the translation.
AdjustInlineDescentLate(fr, st) ==
    LET top_edge == st.top_edge
        bottom_edge == 0 - st.bottom_edge
        a == Max(top_edge, Frame_ascent(fr) - Slack(st))
        moved == translate(fr, a - Frame_baseline(fr))
        d == Max(bottom_edge, Frame_descent(moved) - Slack(st))
    IN  [moved EXCEPT !.size_y = a + d]

\* The `if !block` body.
AdjustInline(fr, st) ==
    LET top_edge == st.top_edge
        bottom_edge == 0 - st.bottom_edge
        a == Max(top_edge, Frame_ascent(fr) - Slack(st))
        d == Max(bottom_edge, Frame_descent(fr) - Slack(st))
        moved == translate(fr, a - Frame_baseline(fr))
    IN  [moved EXCEPT !.size_y = a + d]

Ok(fr) == [kind |-> "ok", error |-> "", frame |-> fr]

Err(msg) == [kind |-> "err", error |-> msg, frame |-> Frame_new(0, 0)]

NoMathFont == "current font does not support math"

\* NoFont without the span test.
NoFontAlwaysFails(n) == Err(NoMathFont)

\* The else branch of `let Some(font) = .. else`.
NoFont(n) == IF n.span THEN Err(NoMathFont) ELSE Ok(Frame_new(0, 0))

\* The frames ctx.layout_frame may return: a baseline and a descent below it.
BodyFrames ==
    {push_frame(set_baseline(Frame_new(6, b + d), b), 0, 0, "body") :
        b \in {3, 12}, d \in {0, 9}}

StyleCases == [leading : {0, 10}, top_edge : {4, 8}, bottom_edge : {0 - 2, 0}]

InitFormula ==
    /\ pc = "select"
    /\ families \in BoundedSeq(FontCases, MaxFamilies)
    /\ node \in [span : BOOLEAN, block : BOOLEAN]
    /\ scan = 0
    /\ font = 0
    /\ styles = NoStyles
    /\ body = Frame_new(0, 0)
    /\ laid = FALSE
    /\ result = NoResult
    /\ fragments = <<>>
    /\ last = 0
    /\ space = Nil
    /\ resolved = <<>>
    /\ row = <<>>
    /\ prev = <<>>
    /\ measure = NoMeasure
    /\ call = NoCall
    /\ frame = Frame_new(0, 0)
    /\ fragment = Nil
    /\ LayoutIdle

\* One family of find_map: the first for which the closure is Some ends it.
TryFamily ==
    /\ pc = "select"
    /\ scan < Len(families)
    /\ scan' = scan + 1
    /\ IF FindsFont(families[scan + 1])
       THEN font' = scan + 1 /\ pc' = "layout"
       ELSE font' = font /\ pc' = pc
    /\ UNCHANGED <<rowVars, layoutVars, families, node, styles, body, laid, result>>

\* find_map is None: bail!(span, ..) or the empty frame.
FontMissing ==
    /\ pc = "select"
    /\ scan = Len(families)
    /\ result' = NoFont(node)
    /\ pc' = "done"
    /\ UNCHANGED <<rowVars, layoutVars, families, node, scan, font, styles, body, laid>>

\* ctx.layout_frame(self)? fails: the error is returned.
LayoutFails ==
    /\ pc = "layout"
    /\ laid' = TRUE
    /\ result' = Err("layout")
    /\ pc' = "done"
    /\ UNCHANGED <<rowVars, layoutVars, families, node, scan, font, styles, body>>

\* ctx.layout_frame(self)? succeeds; the inline adjustment; Ok(frame).
LayoutSucceeds ==
    /\ pc = "layout"
    /\ \E fr \in BodyFrames, st \in StyleCases :
          /\ body' = fr
          /\ styles' = st
          /\ result' = Ok(IF node.block THEN fr ELSE AdjustInline(fr, st))
    /\ laid' = TRUE
    /\ pc' = "done"
    /\ UNCHANGED <<rowVars, layoutVars, families, node, scan, font>>

NextFormula == TryFamily \/ FontMissing \/ LayoutFails \/ LayoutSucceeds

SpecFormula == InitFormula /\ [][NextFormula]_vars

(***************************************************************************)
(* impl LayoutMath for Content (mod.rs): the content tree, the styles and  *)
(* the MathContext that layout_math works on.                              *)
(***************************************************************************)
\* Most nodes of a content tree handed to layout_math.
MaxNodes == 4

SequenceNode(children) == [kind |-> "SequenceNode", children |-> children]

\* lays_out: whether ctx.layout_content(self) succeeds.
StyledNode(map, sub, lays_out) ==
    [kind |-> "StyledNode", map |-> map, body |-> sub, lays_out |-> lays_out]

SpaceNode == [kind |-> "SpaceNode"]

LinebreakNode == [kind |-> "LinebreakNode"]

HNode(amount) == [kind |-> "HNode", amount |-> amount]

\* shapes: whether ctx.layout_text succeeds.
TextNode(shapes) == [kind |-> "TextNode", shapes |-> shapes]

\* Any other element: math is whether it has the LayoutMath capability,
\* lays_out whether its own layout succeeds, baseline whether the frame of
\* its generic layout carries a baseline.
Element(math, lays_out, baseline) ==
    [kind |-> "Element", math |-> math, lays_out |-> lays_out, baseline |-> baseline]

\* Length: an absolute part and a part in em, in units at the base size.
Length(abs, em) == [abs |-> abs, em |-> em]

\* Spacing::Rel(Rel<Length>) with its ratio in percent, and Spacing::Fr.
Rel(rel, abs) == [kind |-> "Rel", rel |-> rel, abs |-> abs]

Fr == [kind |-> "Fr"]

Amounts == {Rel(0, Length(2, 6)), Rel(50, Length(2, 6)), Fr}

\* One style property set to a value; a style map and a style chain are
\* sequences of them, later entries winning.
FontStyle(family) == [prop |-> "font", font |-> family]

SizeStyle(abs) == [prop |-> "size", size |-> abs]

\* The font size at which a length in em has its unit value.
BaseSize == 36

MathFont == "New Computer Modern Math"

\* The styles outside the formula.
Outer == <<FontStyle(MathFont), SizeStyle(BaseSize)>>

\* The last entry of the chain sc that sets prop.
Lookup(sc, prop) ==
    LET set == {i \in 1..Len(sc) : sc[i].prop = prop}
    IN  sc[CHOOSE i \in set : \A j \in set : j <= i]

\* TextNode::font_in and TextNode::size_in.
font_in(sc) == Lookup(sc, "font").font

size_in(sc) == Lookup(sc, "size").size

\* StyleChain::chain(&map) and StyleMap::apply(outer).
chain(outer, map) == outer \o map

apply(map, outer) == outer \o map

\* MathContext::styles: the outer chain with ctx.map on top.
ctx_styles(ctx) == chain(Outer, ctx.map)

\* Em::scaled(ctx) and Length::resolve(styles).
scaled(em, ctx) == (em * ctx.size) \div BaseSize

resolve(length, sc) == length.abs + (length.em * size_in(sc)) \div BaseSize

\* The style deltas of styled nodes: another font, the same font, a size.
Deltas ==
    {<<FontStyle("Libertinus Serif")>>, <<FontStyle(MathFont)>>,
     <<SizeStyle(2 * BaseSize)>>}

\* MathContext::new: an empty map and the text size of the styles.
NewContext == [map |-> <<>>, size |-> size_in(Outer), fragments |-> <<>>]

Leaves ==
    {SpaceNode, LinebreakNode, TextNode(TRUE), TextNode(FALSE),
     Element(TRUE, TRUE, TRUE), Element(TRUE, FALSE, TRUE),
     Element(FALSE, TRUE, TRUE), Element(FALSE, TRUE, FALSE),
     Element(FALSE, FALSE, TRUE)}
        \cup {HNode(a) : a \in Amounts}

\* The place of a leaf in the shape of a content tree.
Hole == [kind |-> "Hole"]

RECURSIVE Shapes(_)
RECURSIVE ShapeLists(_)
\* The shapes of the content trees of exactly n nodes; only a styled node
\* that is laid out in isolation can fail to lay out.
Shapes(n) ==
    IF n = 0 THEN {}
    ELSE (IF n = 1 THEN {Hole} ELSE {})
            \cup {SequenceNode(cs) : cs \in ShapeLists(n - 1)}
            \cup {StyledNode(m, b, TRUE) : m \in Deltas, b \in Shapes(n - 1)}
            \cup {StyledNode(<<FontStyle("Libertinus Serif")>>, b, FALSE) :
                     b \in Shapes(n - 1)}

\* The sequences of shapes of n nodes together.
ShapeLists(n) ==
    IF n = 0 THEN {<<>>}
    ELSE UNION {{<<c>> \o cs : c \in Shapes(k), cs \in ShapeLists(n - k)} :
                   k \in 1..n}

AllShapes == UNION {Shapes(n) : n \in 1..MaxNodes}

RECURSIVE Holes(_)
RECURSIVE HolesOfList(_)
\* The number of leaves of a shape.
Holes(c) ==
    CASE c.kind = "SequenceNode" -> HolesOfList(c.children)
      [] c.kind = "StyledNode" -> Holes(c.body)
      [] OTHER -> 1

HolesOfList(cs) == IF cs = <<>> THEN 0 ELSE Holes(Head(cs)) + HolesOfList(Tail(cs))

RECURSIVE Fill(_, _, _)
RECURSIVE FillList(_, _, _)
\* The content tree of shape c whose leaves are leaves[i], leaves[i + 1], ..
\* in document order.
Fill(c, leaves, i) ==
    CASE c.kind = "SequenceNode" -> SequenceNode(FillList(c.children, leaves, i))
      [] c.kind = "StyledNode" -> StyledNode(c.map, Fill(c.body, leaves, i), c.lays_out)
      [] OTHER -> leaves[i]

FillList(cs, leaves, i) ==
    IF cs = <<>> THEN <<>>
    ELSE <<Fill(Head(cs), leaves, i)>> \o FillList(Tail(cs), leaves, i + Holes(Head(cs)))

(***************************************************************************)
(* layout_math as a machine: m is [stack, context, status, failure]; the   *)
(* stack holds the calls that have not returned, the innermost last.       *)
(***************************************************************************)
\* A call of layout_math on c: `next` is the child of a sequence to lay out
\* next, or 2 once a styled node's body has been called; prev_map and
\* prev_size are the locals of the styled branch.
Call(c) == [node |-> c, next |-> 1, prev_map |-> <<>>, prev_size |-> 0]

Top(m) == m.stack[Len(m.stack)]

Front(s) == SubSeq(s, 1, Len(s) - 1)

\* return Ok(()): back in the caller, or out of the outermost call.
ReturnOk(m) ==
    LET rest == Front(m.stack)
    IN  [m EXCEPT !.stack = rest,
                  !.status = IF rest = <<>> /\ @ = "running" THEN "ok" ELSE @]

\* A `?` that hands the error to a caller that goes on.
UnwindToCaller(s) == Front(s)

\* `?` in the failing call and in every caller up to the outermost.
Unwind(s) == <<>>

Fail(m, e) == [m EXCEPT !.stack = Unwind(@), !.status = "err", !.failure = e]

\* MathContext::push.
push(m, f) == [m EXCEPT !.context.fragments = Append(@, f)]

\* ctx.layout_content(content): the frame of the generic layout.
layout_content(ctx, c) ==
    IF c.kind = "Element" /\ ~c.baseline THEN Frame_new(4, 6)
    ELSE set_baseline(Frame_new(4, 6), 4)

\* ctx.layout_text(text): the shaped glyph at the context's size.
layout_text(ctx) == Glyph("Alphabetic", scaled(2, ctx), scaled(1, ctx), 0)

\* The font's axis height, in em.
axis_height == 9

\* for child in node.children() { child.layout_math(ctx)?; } return Ok(())
SequenceRule(m) ==
    LET t == Top(m)
        children == t.node.children
    IN  IF t.next <= Len(children)
        THEN [m EXCEPT !.stack =
                 Append([@ EXCEPT ![Len(@)].next = t.next + 1], Call(children[t.next]))]
        ELSE ReturnOk(m)

\* A font test that never sees a change.
ChangesFontNever(ctx, map) == FALSE

\* TextNode::font_in(ctx.styles().chain(&map)) != TextNode::font_in(ctx.styles())
ChangesFont(ctx, map) == font_in(chain(ctx_styles(ctx), map)) # font_in(ctx_styles(ctx))

\* The styled branch: the isolated layout when the font changes; otherwise
\* the save and the call of the body (next = 1), and the restore after the
\* body returned Ok (next = 2).
StyledRule(m) ==
    LET t == Top(m)
        ctx == m.context
    IN  IF t.next = 1
        THEN IF ChangesFont(ctx, t.node.map)
             THEN IF t.node.lays_out
                  THEN ReturnOk(push(m, with_spaced(
                           FrameFragment_new(layout_content(ctx, t.node)), TRUE)))
                  ELSE Fail(m, "layout_content")
             ELSE LET merged == [ctx EXCEPT !.map = apply(t.node.map, ctx.map)]
                  IN  [m EXCEPT
                         !.context = [merged EXCEPT !.size = size_in(ctx_styles(merged))],
                         !.stack = Append(
                             [@ EXCEPT ![Len(@)] = [t EXCEPT !.next = 2,
                                                             !.prev_map = ctx.map,
                                                             !.prev_size = ctx.size]],
                             Call(t.node.body))]
        ELSE ReturnOk([m EXCEPT !.context.size = t.prev_size,
                                !.context.map = t.prev_map])

SpaceRule(m) == ReturnOk(push(m, Space(scaled(SpaceWidth, m.context))))

LinebreakRule(m) == ReturnOk(push(m, Linebreak))

\* An HNode branch that does not test the relative part.
HRuleIgnoresRel(m) ==
    LET amount == Top(m).node.amount
    IN  IF amount.kind = "Rel"
        THEN ReturnOk(push(m, Spacing(resolve(amount.abs, ctx_styles(m.context)))))
        ELSE ReturnOk(m)

HRule(m) ==
    LET amount == Top(m).node.amount
    IN  IF amount.kind = "Rel"
        THEN IF amount.rel = 0
             THEN ReturnOk(push(m, Spacing(resolve(amount.abs, ctx_styles(m.context)))))
             ELSE ReturnOk(m)
        ELSE ReturnOk(m)

TextRule(m) ==
    IF Top(m).node.shapes THEN ReturnOk(push(m, layout_text(m.context)))
    ELSE Fail(m, "layout_text")

\* node.layout_math(ctx) of a node with the capability: what it pushes, or
\* its error.
CapabilityRule(m) ==
    IF Top(m).node.lays_out THEN ReturnOk(push(m, FrameFragment("Normal", FALSE, 4, 3, 1)))
    ELSE Fail(m, "layout_math")

FallbackRule(m) ==
    IF Top(m).node.lays_out
    THEN LET fr == layout_content(m.context, Top(m).node)
             based == IF fr.has_baseline THEN fr
                      ELSE set_baseline(fr, fr.size_y \div 2
                                              + scaled(axis_height, m.context))
         IN  ReturnOk(push(m, with_spaced(FrameFragment_new(based), TRUE)))
    ELSE Fail(m, "layout_content")

\* The branch of layout_math that takes c, in the order of the tests.
Dispatches(c) ==
    IF c.kind = "SequenceNode" THEN "sequence"
    ELSE IF c.kind = "StyledNode" THEN "styled"
    ELSE IF c.kind = "SpaceNode" THEN "space"
    ELSE IF c.kind = "LinebreakNode" THEN "linebreak"
    ELSE IF c.kind = "HNode" THEN "h"
    ELSE IF c.kind = "TextNode" THEN "text"
    ELSE IF c.math THEN "capability"
    ELSE "fallback"

(***************************************************************************)
(* layout_math on a content tree, then the return of FormulaNode::layout.  *)
(***************************************************************************)
Machine == [stack |-> stack, context |-> context, status |-> status, failure |-> failure]

InitLayout ==
    /\ pc = "math"
    /\ \E shape \in AllShapes :
          \E leaves \in [1..Holes(shape) -> Leaves] :
             /\ content = Fill(shape, leaves, 1)
             /\ stack = <<Call(content)>>
    /\ context = NewContext
    /\ status = "running"
    /\ failure = ""
    /\ fragments = <<>>
    /\ last = 0
    /\ space = Nil
    /\ resolved = <<>>
    /\ row = <<>>
    /\ prev = <<>>
    /\ measure = NoMeasure
    /\ call = NoCall
    /\ frame = Frame_new(0, 0)
    /\ fragment = Nil
    /\ FormulaIdle

\* One step of the innermost call that has not returned.
Step(rule, m) ==
    /\ pc = "math"
    /\ stack # <<>>
    /\ Dispatches(stack[Len(stack)].node) = rule
    /\ stack' = m.stack
    /\ context' = m.context
    /\ status' = m.status
    /\ failure' = m.failure
    /\ UNCHANGED <<pc, content, rowVars, formulaVars>>

LayoutSequence == Step("sequence", SequenceRule(Machine))

LayoutStyled == Step("styled", StyledRule(Machine))

LayoutSpace == Step("space", SpaceRule(Machine))

LayoutLinebreak == Step("linebreak", LinebreakRule(Machine))

LayoutH == Step("h", HRule(Machine))

LayoutText == Step("text", TextRule(Machine))

LayoutCapability == Step("capability", CapabilityRule(Machine))

LayoutFallback == Step("fallback", FallbackRule(Machine))

\* The context of the block formula's frame.
FormulaContext == [size_ge_text |-> TRUE, par_leading |-> 20, alignment |-> "Center"]

\* ctx.layout_frame(self)? and Ok(Fragment::frame(frame)) of a block formula:
\* the error, or the frame of the row of the pushed fragments.
LayoutReturns ==
    /\ pc = "math"
    /\ stack = <<>>
    /\ pc' = "done"
    /\ laid' = TRUE
    /\ result' = IF status = "err" THEN Err(failure)
                 ELSE Ok(to_frame(MathRow_new(context.fragments), FormulaContext))
    /\ UNCHANGED <<rowVars, layoutVars, families, node, scan, font, styles, body>>

NextLayout ==
    \/ LayoutSequence
    \/ LayoutStyled
    \/ LayoutSpace
    \/ LayoutLinebreak
    \/ LayoutH
    \/ LayoutText
    \/ LayoutCapability
    \/ LayoutFallback
    \/ LayoutReturns

SpecLayout == InitLayout /\ [][NextLayout]_vars

(***************************************************************************)
(* Properties of MathRow::new.                                             *)
(***************************************************************************)
\* An iteration of the loop happens in this step; Taken is its fragment.
Iterates == pc = "loop" /\ Len(fragments') = Len(fragments) + 1

Taken == fragments'[Len(fragments')]

\* The fragment pushed by the iteration.
Pushed == resolved'[Len(resolved')]

Alpha == Glyph("Alphabetic", 2, 1, 0)

Plus == Glyph("Vary", 2, 1, 0)

Equals == Glyph("Relation", 2, 1, 0)

OnlySubstantive(s) == SelectSeq(s, IsSubstantive)

\* resolved is resolved' without the pushed fragment and without what the
\* iteration inserted after position `last`.
OldKeptInOrder ==
    LET grown == Len(resolved') - 1 - Len(resolved)
    IN  /\ grown \in {0, 1}
        /\ \A i \in 1..Len(resolved) :
              resolved[i] = resolved'[IF grown = 1 /\ i > last THEN i + 1 ELSE i]

C1_PromotionStep ==
    (Iterates /\ IsSubstantive(Taken)) =>
        /\ Pushed = [Taken EXCEPT !.class =
              IF Taken.class = "Vary" /\ last # 0
                 /\ resolved[last].class \in {"Normal", "Alphabetic", "Closing", "Fence"}
              THEN "Binary" ELSE Taken.class]
        /\ OldKeptInOrder

C1_OthersKeepClass ==
    (Iterates /\ ~IsSubstantive(Taken)) =>
        /\ Len(resolved') \in {Len(resolved), Len(resolved) + 1}
        /\ SubSeq(resolved', 1, Len(resolved)) = resolved
        /\ Len(resolved') > Len(resolved) => Pushed = Taken

C1_Examples ==
    /\ (pc = "row" /\ fragments = <<Alpha, Plus, Alpha>>)
          => OnlySubstantive(row) = <<Alpha, set_class(Plus, "Binary"), Alpha>>
    /\ (pc = "row" /\ fragments = <<Equals, Plus, Alpha>>)
          => OnlySubstantive(row) = <<Equals, Plus, Alpha>>

\* C1: a substantive Vary fragment becomes Binary exactly when `last` is set
\* and the resolved class at `last` is Normal, Alphabetic, Closing or Fence;
\* every other fragment keeps its class.  [Alphabetic, Vary, Alphabetic] makes
\* the middle one Binary, [Relation, Vary, Alphabetic] leaves it Vary.
C1_Promotion ==
    /\ [][C1_PromotionStep /\ C1_OthersKeepClass]_vars
    /\ []C1_Examples

C1_Witness ==
    /\ pc = "row"
    /\ fragments = <<Alpha, Plus, Alpha>>
    /\ \E i \in 1..Len(row) : row[i] = set_class(Plus, "Binary")

C2_GapStep ==
    (Iterates /\ IsSubstantive(Taken)) =>
        IF last = 0
        THEN resolved' = Append(resolved, Pushed)
        ELSE LET s == spacing(resolved[last], space, Pushed)
             IN  IF s # Nil
                 THEN /\ Len(resolved') = Len(resolved) + 2
                      /\ resolved'[last + 1] = s
                      /\ OldKeptInOrder
                 ELSE resolved' = Append(resolved, Pushed)

C2_AtMostOneGapPerBoundary ==
    LET n == Len(OnlySubstantive(fragments))
    IN  Count(resolved, "Spacing") - Count(fragments, "Spacing")
            <= IF n = 0 THEN 0 ELSE n - 1

C2_Example ==
    (pc = "row" /\ fragments = <<Alpha, Plus, Alpha>>)
        => row = <<Alpha, Spacing(MEDIUM), set_class(Plus, "Binary"),
                   Spacing(MEDIUM), Alpha>>

\* C2: when a substantive fragment r is accepted with `last` at l, one gap
\* decision is made with r's promoted class: a gap is inserted, directly after
\* l, iff spacing(l, pending space, r) yields one; with `last` unset nothing is
\* inserted.  [a, +, b] resolves to [a, gap, + (Binary), gap, b].
C2_OneGapDecision ==
    /\ [][C2_GapStep]_vars
    /\ [](C2_AtMostOneGapPerBoundary /\ C2_Example)

C2_Witness ==
    /\ pc = "row"
    /\ fragments = <<Alpha, Plus, Alpha>>
    /\ Len(row) = 5
    /\ row[2].kind = "Spacing"
    /\ row[4].kind = "Spacing"

\* The input so far ends with an explicit Spacing followed only by Space or
\* Align fragments.
AfterExplicitSpacing(fs) ==
    \E j \in 1..Len(fs) :
        /\ fs[j].kind = "Spacing"
        /\ \A k \in (j + 1)..Len(fs) : fs[k].kind \in {"Space", "Align"}

C3_SpacingStep ==
    (Iterates /\ Taken.kind = "Spacing") =>
        /\ resolved' = Append(resolved, Taken)
        /\ last' = 0
        /\ space' = Nil

C3_AfterSpacingStep ==
    (Iterates /\ IsSubstantive(Taken) /\ AfterExplicitSpacing(fragments)) =>
        resolved' = Append(resolved, Taken)

C3_Example ==
    \A x \in Spacings :
        (pc = "row" /\ fragments = <<Alpha, x, Plus>>) => row = <<Alpha, x, Plus>>

\* C3: an explicit Spacing is appended unchanged and resets `last` and the
\* pending space; the first substantive fragment after it (only Space or Align
\* between) is neither promoted nor preceded by an automatic gap.
\* [Alphabetic, Spacing(x), Vary] leaves the last fragment Vary.
C3_SpacingResets ==
    /\ [][C3_SpacingStep /\ C3_AfterSpacingStep]_vars
    /\ []C3_Example

C3_Witness ==
    /\ pc = "row"
    /\ Len(fragments) = 3
    /\ fragments[1] = Alpha
    /\ fragments[2].kind = "Spacing"
    /\ fragments[3] = Plus
    /\ row[3].class = "Vary"

\* The input without the Space fragments met while no substantive fragment
\* has been accepted since the start, the last Spacing or the last Linebreak.
RECURSIVE DropIdleSpaces(_, _, _)
DropIdleSpaces(fs, k, accepted) ==
    IF k > Len(fs) THEN <<>>
    ELSE LET f == fs[k]
         IN  IF f.kind = "Space" /\ ~accepted
             THEN DropIdleSpaces(fs, k + 1, accepted)
             ELSE <<f>> \o DropIdleSpaces(fs, k + 1,
                      IF f.kind \in {"Spacing", "Linebreak"} THEN FALSE
                      ELSE IF IsSubstantive(f) THEN TRUE
                      ELSE accepted)

C5_Idempotent == pc = "renewed" => row = prev

C5_Witness ==
    /\ pc = "renewed"
    /\ Count(prev, "Spacing") > Count(fragments, "Spacing")
    /\ Count(fragments, "Align") > 0
    /\ row = prev

(***************************************************************************)
(* Properties of row measurement and multi-row assembly.                   *)
(***************************************************************************)
SetMaxOrZero(S) == IF S = {} THEN 0 ELSE CHOOSE m \in S : \A x \in S : x <= m

RECURSIVE SumOver(_, _)
SumOver(I, f) ==
    IF I = {} THEN 0
    ELSE LET i == CHOOSE j \in I : TRUE IN f[i] + SumOver(I \ {i}, f)

NonMarkers(r) == {i \in 1..Len(r) : r[i].kind \notin {"Align", "Linebreak"}}

\* C6: ascent() is the greatest fragment ascent, descent() the greatest
\* fragment descent, width() the sum of the widths of the non-marker
\* fragments, height() is ascent() + descent(); all are zero for an empty row.
C6_Aggregates ==
    pc = "measured" =>
        /\ measure.ascent = SetMaxOrZero({row[i].ascent : i \in 1..Len(row)})
        /\ measure.descent = SetMaxOrZero({row[i].descent : i \in 1..Len(row)})
        /\ measure.width = SumOver(NonMarkers(row), [i \in 1..Len(row) |-> row[i].width])
        /\ measure.height = measure.ascent + measure.descent
        /\ row = <<>> => measure = NoMeasure

C6_Witness ==
    /\ pc = "measured"
    /\ Count(row, "Align") > 0
    /\ Count(row, "Spacing") > 0
    /\ \E i, j \in 1..Len(row) :
          /\ row[i].ascent > row[j].ascent
          /\ row[j].ascent > 0
          /\ row[j].descent > row[i].descent
    /\ measure.width > 0

HasLinebreak(r) == Count(r, "Linebreak") > 0

\* The position of the j-th Linebreak of r; 0 for j = 0 and Len(r) + 1 past
\* the last one.
BreakAt(r, j) ==
    IF j = 0 THEN 0
    ELSE IF j > Count(r, "Linebreak") THEN Len(r) + 1
    ELSE CHOOSE k \in 1..Len(r) :
            /\ r[k].kind = "Linebreak"
            /\ Cardinality({m \in 1..k : r[m].kind = "Linebreak"}) = j

\* The j-th sub-row, j in 1..N.
SubRow(r, j) == SubSeq(r, BreakAt(r, j - 1) + 1, BreakAt(r, j) - 1)

NumSubRows(r) == Count(r, "Linebreak") + 1

SubRowHeights(r) ==
    SumOver(1..NumSubRows(r), [j \in 1..NumSubRows(r) |-> MathRow_height(SubRow(r, j))])

MaxSubRowWidth(r) ==
    SetMaxOrZero({MathRow_width(SubRow(r, j)) : j \in 1..NumSubRows(r)})

\* The final cursor positions of the sub-rows' line frames.
MaxLineFrameWidth(r, align) ==
    LET points == alignments([j \in 1..NumSubRows(r) |-> SubRow(r, j)])
    IN  SetMaxOrZero({to_line_frame(SubRow(r, j), points, align).size_x :
                         j \in 1..NumSubRows(r)})

\* C7 as stated: the frame of a row with Linebreak markers is as high as its
\* N sub-rows plus leading * (N - 1) and as wide as the widest sub-row by
\* MathRow::width, also with Align markers and empty sub-rows.
C7_WidthIsMaxRowWidth ==
    (pc = "framed" /\ HasLinebreak(row)) =>
        /\ frame.size_y = SubRowHeights(row)
                            + Leading(call.ctx) * (NumSubRows(row) - 1)
        /\ frame.size_x = MaxSubRowWidth(row)

\* C7, amended: the height is as stated; the width is the greatest final
\* cursor position of the sub-rows' line frames under the shared alignment
\* points, which is the greatest MathRow::width when the row has no Align.
C7_WidthIsMaxLineFrameWidth ==
    (pc = "framed" /\ HasLinebreak(row)) =>
        /\ frame.size_y = SubRowHeights(row)
                            + Leading(call.ctx) * (NumSubRows(row) - 1)
        /\ frame.size_x = MaxLineFrameWidth(row, call.align)
        /\ Count(row, "Align") = 0 => frame.size_x = MaxSubRowWidth(row)

C7_Witness ==
    /\ pc = "framed"
    /\ Count(row, "Linebreak") = 1
    /\ Count(row, "Align") = 2
    /\ frame.size_x > MaxSubRowWidth(row)
    /\ frame.size_y > SubRowHeights(row)

(***************************************************************************)
(* Properties of FormulaNode::layout.                                      *)
(***************************************************************************)
\* 0.7 * leading, for the leadings of the model.
SevenTenths(x) == CHOOSE v \in 0..x : 10 * v = 7 * x

Greater(a, b) == IF a > b THEN a ELSE b

Returned == pc = "done" /\ result.kind = "ok" /\ laid

NoFamilyHasMathFont ==
    \A i \in 1..Len(families) :
        ~(families[i].select /\ families[i].font
            /\ families[i].math /\ families[i].constants)

\* C9: when no family yields a font with math metric tables the outcome
\* depends on the span alone: with a span the "no math font" error, without
\* one a single empty frame of size zero; the body is not laid out.
C9_NoMathFont ==
    (pc = "done" /\ NoFamilyHasMathFont) =>
        /\ ~laid
        /\ node.span => (result.kind = "err" /\ result.error = NoMathFont)
        /\ ~node.span =>
              /\ result.kind = "ok"
              /\ result.frame.size_x = 0
              /\ result.frame.size_y = 0
              /\ result.frame.items = <<>>

C9_Witness ==
    /\ pc = "done"
    /\ Len(families) = 2
    /\ NoFamilyHasMathFont
    /\ ~node.span
    /\ result.kind = "ok"

Qualifies(f) == f.select /\ f.font /\ f.constants

\* C10: the families are scanned in order and the font of the first family
\* for which the book selects a font, the font loads and the font has math
\* constants is taken; failing families are skipped and no later family is
\* taken when an earlier one qualifies.
C10_FirstQualifyingFamily ==
    /\ \A i \in 1..scan : i # font => ~Qualifies(families[i])
    /\ font # 0 => (font = scan /\ Qualifies(families[font]))
    /\ pc = "select" => font = 0
    /\ pc = "layout" => font # 0
    /\ (pc = "done" /\ \E i \in 1..Len(families) : Qualifies(families[i]))
          => (font # 0 /\ laid)

C10_Witness ==
    /\ pc = "layout"
    /\ font = 3
    /\ ~families[1].select
    /\ ~families[2].constants

(***************************************************************************)
(* MathRow::new on longer inputs over the four marker kinds and three      *)
(* substantive fragments: an Alphabetic glyph, a Vary glyph and a spaced   *)
(* frame.                                                                  *)
(***************************************************************************)
MaxMarkedLen == 5

Box == FrameFragment("Normal", TRUE, 2, 1, 0)

MarkedFragments ==
    {Alpha, Plus, Box, Space(SpaceWidth), Spacing(THIN), Align, Linebreak}

\* One iteration of the loop: the match on the fragment the iterator yields.
TakeMarked ==
    /\ pc = "loop"
    /\ Len(fragments) < MaxMarkedLen
    /\ \E f \in MarkedFragments :
          /\ fragments' = Append(fragments, f)
          /\ last' = LoopStep(loop, f).last
          /\ space' = LoopStep(loop, f).space
          /\ resolved' = LoopStep(loop, f).resolved
    /\ UNCHANGED <<pc, row, prev, measure, call, frame, fragment, formulaVars, layoutVars>>

NextMarkers == TakeMarked \/ Finish

SpecMarkers == Init /\ [][NextMarkers]_vars

(***************************************************************************)
(* Properties of the markers in MathRow::new.                              *)
(***************************************************************************)
\* The fragment the loop took last.
LastTaken == fragments[Len(fragments)]

RECURSIVE JoinResolved(_, _)
\* Each Linebreak-separated segment of fs resolved on its own, from segment j
\* on, joined by Linebreak markers.
JoinResolved(fs, j) ==
    IF j > NumSubRows(fs) THEN <<>>
    ELSE (IF j > 1 THEN <<Linebreak>> ELSE <<>>)
             \o MathRow_new(SubRow(fs, j)) \o JoinResolved(fs, j + 1)

\* C13: a Linebreak is appended unchanged and leaves `last` and the pending
\* space unset, so the resolved row is the concatenation, joined by Linebreak
\* markers, of resolving each Linebreak-separated segment of the input on its
\* own: no promotion and no gap depends on a fragment across a Linebreak.
C13_SubRowsIndependent ==
    /\ (pc = "loop" /\ fragments # <<>> /\ LastTaken.kind = "Linebreak") =>
          /\ last = 0
          /\ space = Nil
          /\ resolved # <<>>
          /\ resolved[Len(resolved)] = Linebreak
    /\ pc = "row" => row = JoinResolved(fragments, 1)

\* A Vary right after a Linebreak stays Vary and gets no gap; a Space buffered
\* before the Linebreak is not used after it.
C13_Witness ==
    /\ pc = "row"
    /\ \/ fragments = <<Alpha, Linebreak, Plus>>
       \/ fragments = <<Box, Space(SpaceWidth), Linebreak, Box>>
    /\ row = SelectSeq(fragments, LAMBDA f : f.kind # "Space")

NotAlign(f) == f.kind # "Align"

\* The loop state before the last taken fragment.
BeforeLastTaken == LoopRun(LoopInit, SubSeq(fragments, 1, Len(fragments) - 1), 1)

\* C14: an Align is appended unchanged and resets neither `last` nor the
\* pending space: everything after position `last` is an Align marker, so a
\* gap inserted at last + 1 lands before the intervening markers; a Vary after
\* [Alphabetic, Align] is promoted, a Space buffered before or after the Align
\* decides the next gap, and the row without its Align markers is the row
\* resolved from the input without them.
C14_AlignTransparent ==
    /\ (pc = "loop" /\ fragments # <<>> /\ LastTaken.kind = "Align") =>
          /\ last = BeforeLastTaken.last
          /\ space = BeforeLastTaken.space
          /\ resolved = Append(BeforeLastTaken.resolved, Align)
    /\ (pc = "loop" /\ last # 0) =>
          /\ last <= Len(resolved)
          /\ \A i \in (last + 1)..Len(resolved) : resolved[i] = Align
    /\ pc = "row" =>
          /\ SelectSeq(row, NotAlign) = MathRow_new(SelectSeq(fragments, NotAlign))
          /\ fragments = <<Alpha, Align, Plus>> =>
                row = <<Alpha, Spacing(MEDIUM), Align, set_class(Plus, "Binary")>>
          /\ fragments = <<Alpha, Align, Align, Plus>> =>
                row = <<Alpha, Spacing(MEDIUM), Align, Align, set_class(Plus, "Binary")>>
          /\ fragments \in {<<Box, Space(SpaceWidth), Align, Box>>,
                            <<Box, Align, Space(SpaceWidth), Box>>} =>
                row = <<Box, Spacing(SpaceWidth), Align, Box>>

C14_Witness ==
    /\ pc = "row"
    /\ fragments = <<Box, Align, Space(SpaceWidth), Box>>
    /\ row[2].kind = "Spacing"
    /\ row[3] = Align

NotSpace(f) == f.kind # "Space"

RECURSIVE GapsDeleted(_, _, _, _)
\* out from position i on is inp from position j on, up to Vary fragments that
\* became Binary, once Spacing fragments that are not in inp are deleted.
GapsDeleted(out, inp, i, j) ==
    IF i > Len(out) THEN j > Len(inp)
    ELSE IF /\ j <= Len(inp)
            /\ \/ out[i] = inp[j]
               \/ /\ IsSubstantive(inp[j])
                  /\ inp[j].class = "Vary"
                  /\ out[i] = set_class(inp[j], "Binary")
         THEN GapsDeleted(out, inp, i + 1, j + 1)
         ELSE out[i].kind = "Spacing" /\ GapsDeleted(out, inp, i + 1, j)

NumSubstantive(fs) == Len(OnlySubstantive(fs))

NumNonSpace(fs) == Len(SelectSeq(fs, NotSpace))

C15_ContentKept == GapsDeleted(row, SelectSeq(fragments, NotSpace), 1, 1)

\* C15 as stated: content and order are kept, and the output is no longer than
\* the non-Space inputs plus the substantive fragments minus one.
C15_LengthBoundMinusOne ==
    pc = "row" =>
        /\ C15_ContentKept
        /\ Len(row) <= NumNonSpace(fragments) + NumSubstantive(fragments) - 1

\* C15: deleting the inserted gaps from the resolved row gives the input with
\* its Space fragments deleted, in order, up to Vary promoted to Binary; the
\* output is no longer than the non-Space inputs plus one gap per pair of
\* neighbouring substantive fragments, which is the substantive fragments
\* minus one when there is any and none when there is none.
C15_ContentAndOrderKept ==
    pc = "row" =>
        /\ C15_ContentKept
        /\ Len(row) <= NumNonSpace(fragments)
              + (IF NumSubstantive(fragments) = 0 THEN 0
                 ELSE NumSubstantive(fragments) - 1)

\* A row with a gap at every boundary, a promoted Vary and a dropped Space.
C15_Witness ==
    /\ pc = "row"
    /\ NumSubstantive(fragments) >= 2
    /\ NumNonSpace(fragments) < Len(fragments)
    /\ Len(row) = NumNonSpace(fragments) + NumSubstantive(fragments) - 1
    /\ \E i \in 1..Len(row) : row[i].class = "Binary"

(***************************************************************************)
(* Properties of MathRow::to_line_frame and of the placing of sub-rows.    *)
(***************************************************************************)
\* The Align markers of r before position k.
AlignsBefore(r, k) == Cardinality({m \in 1..(k - 1) : r[m].kind = "Align"})

\* The Align markers before position k whose column has a position in points.
Snapped(r, points, k) ==
    {m \in 1..(k - 1) : r[m].kind = "Align" /\ AlignsBefore(r, m) + 1 <= Len(points)}

RECURSIVE WidthsWithin(_, _, _)
\* The widths of the fragments of r at lo..hi that are not Align markers.
WidthsWithin(r, lo, hi) ==
    IF lo > hi THEN 0
    ELSE (IF r[lo].kind = "Align" THEN 0 ELSE r[lo].width) + WidthsWithin(r, lo + 1, hi)

\* The cursor before position k: the widths placed since the start, or since
\* the last Align marker that had a column position.
CursorBefore(r, points, start, k) ==
    IF Snapped(r, points, k) = {} THEN start + WidthsWithin(r, 1, k - 1)
    ELSE LET m == CHOOSE i \in Snapped(r, points, k) :
                         \A j \in Snapped(r, points, k) : j <= i
         IN  points[AlignsBefore(r, m) + 1] + WidthsWithin(r, m + 1, k - 1)

\* The positions of the fragments of r that are not Align markers, in order.
PlacedPositions(r) ==
    SelectSeq([i \in 1..Len(r) |-> i], LAMBDA i : r[i].kind # "Align")

\* fr holds one item per fragment of r that is not an Align, in order, at the
\* cursor and at row ascent minus the fragment's ascent.
LineFramePlaces(fr, r, points, align) ==
    LET placed == PlacedPositions(r)
        top == SetMaxOrZero({r[i].ascent : i \in 1..Len(r)})
    IN  /\ Len(fr.items) = Len(placed)
        /\ \A j \in 1..Len(placed) :
              fr.items[j] =
                 [x |-> CursorBefore(r, points, StartX(r, points, align), placed[j]),
                  y |-> top - r[placed[j]].ascent,
                  item |-> r[placed[j]]]

\* C16: to_line_frame places the fragments left to right from a cursor x:
\* every fragment that is not an Align goes to (x, row ascent - its ascent)
\* and x advances by its width; an Align places nothing and does not advance
\* x; the k-th Align sets x to points[k] when that entry exists and leaves x
\* at the running cursor when it does not.
C16_PlacedFromCursor ==
    pc = "lined" => LineFramePlaces(frame, row, call.points, call.align)

\* A row with two Align markers and one column position: the first marker
\* moves the cursor to the column, the second leaves it where it is.
C16_Witness ==
    /\ pc = "lined"
    /\ Count(row, "Align") = 2
    /\ call.points = <<8>>
    /\ \E j \in 2..Len(frame.items) :
          /\ frame.items[j - 1].x + frame.items[j - 1].item.width < 8
          /\ frame.items[j].x = 8
    /\ row[Len(row)].kind # "Align"
    /\ row[Len(row) - 1].kind = "Align"
    /\ frame.items[Len(frame.items)].x > 8

\* fr has the measurements of r: baseline at the ascent, height ascent plus
\* descent, width the final cursor, which is r.width() without column positions.
LineFrameMeasures(fr, r, points, align) ==
    /\ fr.has_baseline
    /\ fr.baseline = MathRow_ascent(r)
    /\ fr.size_y = MathRow_ascent(r) + MathRow_descent(r)
    /\ fr.size_x = CursorBefore(r, points, StartX(r, points, align), Len(r) + 1)
    /\ points = <<>> => fr.size_x = MathRow_width(r)

\* C17: for every row without Linebreak markers the frame of to_line_frame has
\* baseline row.ascent(), height row.ascent() + row.descent() and as width the
\* final cursor position, which is row.width() whenever points is empty.
C17_LineFrameAgreesWithMeasures ==
    pc = "lined" => LineFrameMeasures(frame, row, call.points, call.align)

\* A line frame whose width is the row's, and one whose width is not.
C17_Witness ==
    /\ pc = "lined"
    /\ Len(row) >= 3
    /\ frame.baseline > 0
    /\ frame.size_y > frame.baseline
    /\ \/ call.points = <<>> /\ Count(row, "Align") > 0 /\ frame.size_x = MathRow_width(row)
       \/ call.points # <<>> /\ frame.size_x > MathRow_width(row)

\* C18 as stated: a sub-row is positioned by `align` within the overall width
\* exactly when it has no Align marker of its own and is placed at x = 0 when
\* it has one.
C18_AlignedIffNoOwnColumns ==
    (pc = "framed" /\ HasLinebreak(row)) =>
        \A j \in 1..NumSubRows(row) :
            frame.items[j].x =
               IF Count(SubRow(row, j), "Align") = 0
               THEN position(call.align,
                             MaxSubRowWidth(row) - frame.items[j].item.size_x)
               ELSE 0

\* C18, amended: the sub-rows are positioned by `align` within the overall
\* width exactly when no sub-row of the row has an Align marker, that is when
\* the shared column positions are empty; otherwise every sub-row is placed at
\* x = 0, with or without Align markers of its own.
C18_AlignedIffNoColumnsAtAll ==
    (pc = "framed" /\ HasLinebreak(row)) =>
        /\ Len(frame.items) = NumSubRows(row)
        /\ \A j \in 1..NumSubRows(row) :
              frame.items[j].x =
                 IF Count(row, "Align") = 0
                 THEN position(call.align,
                               MaxSubRowWidth(row) - MathRow_width(SubRow(row, j)))
                 ELSE 0

\* A narrower sub-row without Align markers next to one with a marker: it is
\* placed at x = 0 though `align` would move it.
C18_Witness ==
    /\ pc = "framed"
    /\ HasLinebreak(row)
    /\ call.align \in {"Center", "Right"}
    /\ \E j \in 1..NumSubRows(row) :
          /\ Count(SubRow(row, j), "Align") = 0
          /\ Count(row, "Align") > 0
          /\ position(call.align, MaxSubRowWidth(row) - frame.items[j].item.size_x) > 0
          /\ frame.items[j].x = 0

(***************************************************************************)
(* Properties of MathRow::to_fragment.                                     *)
(***************************************************************************)
\* C19: to_fragment returns the row's only fragment itself, unchanged,
\* exactly when the row holds exactly one fragment, of whatever kind; for a
\* row of no or of several fragments it returns one opaque frame fragment
\* that wraps the frame to_frame produces.
C19_UnwrapsExactlyOne ==
    pc = "fragment" =>
        IF Len(row) = 1
        THEN fragment = row[1]
        ELSE /\ fragment.kind = "Frame"
             /\ fragment.frame = to_aligned_frame(row, call.ctx, <<>>, call.align)
             /\ fragment.width = fragment.frame.size_x
             /\ fragment \notin {row[i] : i \in 1..Len(row)}

\* A lone Linebreak, a lone Align or a lone Spacing comes back as it is.
C19_Witness ==
    /\ pc = "fragment"
    /\ Len(row) = 1
    /\ row[1].kind \in {"Linebreak", "Align", "Spacing"}
    /\ fragment = row[1]

(***************************************************************************)
(* Properties of layout_math.                                              *)
(***************************************************************************)
\* A styled node whose delta sets a font other than the formula's: outside
\* such a node the active font is always the formula's.
Isolated(c) ==
    /\ c.kind = "StyledNode"
    /\ \E i \in 1..Len(c.map) : c.map[i].prop = "font" /\ c.map[i].font # MathFont

Unit(error, fails, pushes) == [error |-> error, fails |-> fails, pushes |-> pushes]

RECURSIVE Units(_)
RECURSIVE UnitsOfList(_, _)
\* The sub-layouts of c in document order: for each, its error, whether it
\* fails, and how many fragments it pushes when it does not.
Units(c) ==
    CASE c.kind = "SequenceNode" -> UnitsOfList(c.children, 1)
      [] c.kind = "StyledNode" ->
            IF Isolated(c) THEN <<Unit("layout_content", ~c.lays_out, 1)>>
            ELSE Units(c.body)
      [] c.kind \in {"SpaceNode", "LinebreakNode"} -> <<Unit("", FALSE, 1)>>
      [] c.kind = "HNode" ->
            <<Unit("", FALSE, IF c.amount = Rel(0, Length(2, 6)) THEN 1 ELSE 0)>>
      [] c.kind = "TextNode" -> <<Unit("layout_text", ~c.shapes, 1)>>
      [] c.kind = "Element" ->
            <<Unit(IF c.math THEN "layout_math" ELSE "layout_content", ~c.lays_out, 1)>>

UnitsOfList(cs, i) ==
    IF i > Len(cs) THEN <<>> ELSE Units(cs[i]) \o UnitsOfList(cs, i + 1)

\* The first sub-layout that fails; one past the last when none does.
FirstFailure(us) ==
    IF \E i \in 1..Len(us) : us[i].fails
    THEN CHOOSE i \in 1..Len(us) : us[i].fails /\ \A j \in 1..(i - 1) : ~us[j].fails
    ELSE Len(us) + 1

\* The fragments the sub-layouts before position k push.
PushedBefore(us, k) == SumOver(1..(k - 1), [i \in 1..Len(us) |-> us[i].pushes])

\* C11: layout is fail-fast and all-or-nothing: once a sub-layout fails no
\* call of layout_math is left to go on, the fragments pushed are those of
\* the sub-layouts before the first failing one and of no later sibling, the
\* outcome is that sub-layout's error, and FormulaNode::layout returns the
\* error and no frame.
C11_FailFast ==
    LET us == Units(content)
        k == FirstFailure(us)
    IN  /\ status = "err" => stack = <<>>
        /\ Len(context.fragments) <= PushedBefore(us, k)
        /\ stack = <<>> =>
              /\ Len(context.fragments) = PushedBefore(us, k)
              /\ status = (IF k <= Len(us) THEN "err" ELSE "ok")
              /\ status = "err" => failure = us[k].error
        /\ pc = "done" =>
              /\ result.kind = (IF k <= Len(us) THEN "err" ELSE "ok")
              /\ k <= Len(us) => result = Err(us[k].error)

\* A failure between two siblings that push: the first sibling's fragment is
\* there, the later one's is not, and the formula returned the error.
C11_Witness ==
    /\ pc = "done"
    /\ result.kind = "err"
    /\ content.kind = "SequenceNode"
    /\ Len(content.children) = 3
    /\ Len(context.fragments) = 1
    /\ PushedBefore(Units(content), Len(Units(content)) + 1) = 3

\* The innermost styled call whose body is being laid out.
HoldsBody(p) ==
    /\ stack[p].node.kind = "StyledNode"
    /\ stack[p].next = 2
    /\ \A q \in (p + 1)..Len(stack) : stack[q].node.kind # "StyledNode"

\* C12 as stated: for a styled node whose delta does not change the font,
\* the context holds the prior map extended by the delta while the body is
\* laid out, and when layout_math returns the map and the size are what they
\* were before the call, on every exit path, a failing body included.
C12_StyleRestoredOnEveryExit ==
    /\ \A p \in 1..Len(stack) :
          HoldsBody(p) => context.map = stack[p].prev_map \o stack[p].node.map
    /\ (content.kind = "StyledNode" /\ ~Isolated(content) /\ stack = <<>>) =>
          /\ context.map = NewContext.map
          /\ context.size = NewContext.size

\* layout_math is about to run on a styled node whose delta changes the font.
IsolatedCall ==
    /\ pc = "math"
    /\ stack # <<>>
    /\ stack' # stack
    /\ Isolated(stack[Len(stack)].node)

\* What an isolated layout leaves alone: the map, the size, the fragments
\* already pushed, and the body, which is never called.
IsolatedFrame ==
    /\ context'.map = context.map
    /\ context'.size = context.size
    /\ Len(stack') < Len(stack)
    /\ SubSeq(context'.fragments, 1, Len(context.fragments)) = context.fragments

OnePushed ==
    /\ Len(context'.fragments) = Len(context.fragments) + 1
    /\ LET f == context'.fragments[Len(context'.fragments)]
       IN  /\ f.kind = "Frame"
           /\ f.spaced
           /\ f.frame = layout_content(context, stack[Len(stack)].node)

\* C20 as stated: a styled node whose delta changes the font always pushes
\* exactly one opaque spacing-eligible frame fragment.
C20_AlwaysPushesOne == [][IsolatedCall => IsolatedFrame /\ OnePushed]_vars

\* C20: a styled node whose delta changes the active font is laid out in
\* isolation: its body is never dispatched into the surrounding row and the
\* context's map and size stay as they are; when the isolated layout succeeds
\* exactly one opaque, spacing-eligible frame fragment is pushed, and when it
\* fails nothing is pushed and the call fails.
C20_IsolatedPushesOneOrFails ==
    [][IsolatedCall =>
          /\ IsolatedFrame
          /\ IF stack[Len(stack)].node.lays_out
             THEN OnePushed /\ status' # "err"
             ELSE context'.fragments = context.fragments /\ status' = "err"]_vars

\* A font-changing styled node over a body of two fragments: the row holds
\* one spaced frame fragment and none of the body's.
C20_Witness ==
    /\ pc = "done"
    /\ Isolated(content)
    /\ content.body.kind = "SequenceNode"
    /\ Len(content.body.children) = 2
    /\ result.kind = "ok"
    /\ Len(context.fragments) = 1
    /\ context.fragments[1].spaced
    /\ context.map = NewContext.map

\* layout_math is about to run on horizontal spacing content.
HCall ==
    /\ pc = "math"
    /\ stack # <<>>
    /\ stack' # stack
    /\ stack[Len(stack)].node.kind = "HNode"

\* The call returned Ok to its caller: no error is raised, and the map and
\* the size of the context are as they were.
HReturnsOk ==
    /\ stack' = Front(stack)
    /\ status' # "err"
    /\ failure' = failure
    /\ context'.map = context.map
    /\ context'.size = context.size

\* The absolute length of a Length at the text size of the active styles.
ResolvedAbs(length) ==
    length.abs + (length.em * size_in(chain(Outer, context.map))) \div BaseSize

\* C21: for horizontal spacing content layout_math pushes exactly one
\* Spacing fragment of the resolved absolute length when the amount is a
\* relative length whose relative part is zero, and pushes nothing when the
\* relative part is nonzero or the amount is fractional; in every case the
\* call succeeds and returns, so that neither the math-layout capability nor
\* the generic fallback pushes anything for the node.
C21_HNodePushesFixedSpacing ==
    [][HCall =>
          LET amount == stack[Len(stack)].node.amount
          IN  /\ HReturnsOk
              /\ IF amount.kind = "Rel" /\ amount.rel = 0
                 THEN context'.fragments =
                          Append(context.fragments, Spacing(ResolvedAbs(amount.abs)))
                 ELSE context'.fragments = context.fragments]_vars

\* A sequence of a fixed, a relative and a fractional spacing: the formula
\* is laid out and only the fixed one gave a fragment, 2pt + 6/36 em at the
\* base size.
C21_Witness ==
    /\ pc = "done"
    /\ result.kind = "ok"
    /\ content = SequenceNode(<<HNode(Rel(0, Length(2, 6))),
                                HNode(Rel(50, Length(2, 6))),
                                HNode(Fr)>>)
    /\ context.fragments = <<Spacing(8)>>

(***************************************************************************)
(* The loop invariant of MathRow::new.                                     *)
(***************************************************************************)
\* The fragment the iterator yielded last, Nil before the first.
Yielded == IF fragments = <<>> THEN Nil ELSE fragments[Len(fragments)]

\* The pending space is the Space the iterator yielded at some position, and
\* nothing but Space and Align fragments came after it.
PendingSince(k) ==
    /\ fragments[k] = space
    /\ \A j \in (k + 1)..Len(fragments) : fragments[j].kind \in {"Space", "Align"}

\* C22: in every state of the MathRow::new loop a buffered pending space
\* implies that `last` is set, and `last`, when set, is a valid index of a
\* substantive fragment of the resolved vector; hence the take of the pending
\* space inside the `last`-is-set branch leaves no pending space after any
\* substantive fragment, as an unconditional clearing would, and no pending
\* space is carried past a Spacing or a Linebreak.
C22_PendingSpaceImpliesLast ==
    /\ space # Nil => last # 0
    /\ last # 0 =>
          /\ last \in 1..Len(resolved)
          /\ IsSubstantive(resolved[last])
    /\ (Yielded # Nil /\ IsSubstantive(Yielded)) =>
          /\ space = Nil
          /\ last = Len(resolved)
    /\ (Yielded # Nil /\ Yielded.kind \in {"Spacing", "Linebreak"}) =>
          /\ space = Nil
          /\ last = 0
    /\ space # Nil => \E k \in 1..Len(fragments) : PendingSince(k)

\* A space is pending behind an Align: `last` still names the glyph, which is
\* no longer the end of the resolved vector.
C22_Witness ==
    /\ pc = "loop"
    /\ fragments = <<Alpha, Space(SpaceWidth), Align>>
    /\ space = Space(SpaceWidth)
    /\ last = 1
    /\ resolved = <<Alpha, Align>>

====
